---- MODULE Spec2Model ----
(***************************************************************************)
(* The transaction synchronisation core of eg-main-frame                   *)
(* (src/unnamed/part_001): getUserId, storePlaidItem, storePlaidAccounts,  *)
(* fetchAndStoreAccounts, syncTransactions, applyTransactionUpdates,       *)
(* fetchAccounts and fetchTransactions, run against a relational store     *)
(* (tables items, accounts, transactions) and an aggregation provider.     *)
(*                                                                         *)
(* Every `await` of syncTransactions / applyTransactionUpdates is a step   *)
(* of its own, so invocations interleave where server actions can.         *)
(***************************************************************************)
EXTENDS Integers, Sequences, FiniteSets, TLC

\* ------------------------------------------------------------------ bounds
MaxPages == 2       \* pages in the provider's change log
MaxPageLen == 1     \* entries of one page's added / modified / removed list

\* ------------------------------------------------------------- value sets
Procs == {"p1", "p2"}            \* concurrent callers of syncTransactions
ItemIds == {"A", "B"}
TxIds == {"t1", "t2"}
Users == {"u1"}
NoUser == "none"                 \* auth.getUser() gave an error or no user id
NullCursor == "null"             \* JavaScript null
EmptyCursor == ""                \* the provider's cursor before any data

\* messages of the thrown errors and of the acknowledgment
SyncOkMessage == "Transactions synced successfully"
SyncFailedMessage == "Failed to sync transactions"
UserNotFoundMessage == "User not found"
UpsertErrorMessage == "Error upserting transactions"
DeleteErrorMessage == "Error deleting transactions"
CursorErrorMessage == "Error updating cursor"
FetchErrorMessage == "transactionsSync rejected"

\* ---------------------------------------------------------------- helpers
Range(s) == {s[i] : i \in DOMAIN s}

SeqsUpTo(S, n) == UNION {[1..k -> S] : k \in 0..n}

MapSeq(s, F(_)) == [i \in DOMAIN s |-> F(s[i])]

\* ------------------------------------------------------- provider (plaid)
\* A provider page as transactionsSync answers it.  The payload of a
\* transaction is abstracted to its amount; the amount a page reports is the
\* page's position in the log (the value as of that update).
Transaction(t, v) ==
    [transaction_id |-> t, account_id |-> "acct", amount |-> v,
     iso_currency_code |-> "USD"]

RemovedTransaction(t) == [transaction_id |-> t]

Token(k) == IF k = 0 THEN EmptyCursor ELSE ToString(k)

\* position in the log a cursor stands for; null and "" are the beginning
Pos(c) == IF c \in {NullCursor, EmptyCursor} THEN 0
          ELSE CHOOSE k \in 1..MaxPages : Token(k) = c

LogPage(k, a, m, r, more) ==
    [added |-> MapSeq(a, LAMBDA t : Transaction(t, k)),
     modified |-> MapSeq(m, LAMBDA t : Transaction(t, k)),
     removed |-> MapSeq(r, RemovedTransaction),
     has_more |-> more,
     next_cursor |-> Token(k)]

\* the page after the end of the log: nothing new, the cursor stays
EndPage(c) ==
    [added |-> << >>, modified |-> << >>, removed |-> << >>,
     has_more |-> FALSE,
     next_cursor |-> IF c = NullCursor THEN EmptyCursor ELSE c]

\* the pages the provider can hold at position k of its log
PagesAt(T, k, mores) ==
    { LogPage(k, a, m, r, more) :
        a \in SeqsUpTo(T, MaxPageLen), m \in SeqsUpTo(T, MaxPageLen),
        r \in SeqsUpTo(T, MaxPageLen), more \in mores }

RECURSIVE Prefixes(_, _)
Prefixes(T, n) ==
    IF n = 0 THEN { << >> }
    ELSE { Append(l, pg) : l \in Prefixes(T, n - 1), pg \in PagesAt(T, n, BOOLEAN) }

\* the change logs over the transaction identifiers T: finite, and the last
\* page of a log says has_more = false
LogsOver(T) ==
    { << >> } \cup
    UNION { { Append(l, pg) : l \in Prefixes(T, n - 1), pg \in PagesAt(T, n, {FALSE}) }
            : n \in 1..MaxPages }

\* plaidClient.transactionsSync({access_token, cursor}) on the log
TransactionsSync(log, c) ==
    IF Pos(c) < Len(log) THEN log[Pos(c) + 1] ELSE EndPage(c)

\* A provider that does not keep its contract: its last page says has_more
\* and hands back the cursor it was asked with, so the same page is the
\* answer to every later call.
StuckPage(pg, k) == [pg EXCEPT !.has_more = TRUE, !.next_cursor = Token(k - 1)]

StuckLogs(T) ==
    { [l EXCEPT ![Len(l)] = StuckPage(l[Len(l)], Len(l))] :
        l \in LogsOver(T) \ { << >> } }

\* calling transactionsSync from cursor c, and on with each next_cursor, the
\* provider answers has_more = false within n calls
RECURSIVE EndsWithin(_, _, _)
EndsWithin(log, c, n) ==
    /\ n > 0
    /\ LET data == TransactionsSync(log, c) IN
       ~data.has_more \/ EndsWithin(log, data.next_cursor, n - 1)

\* ------------------------------------------------------------------ store
\* supabase tables are sets of rows; a statement either applies as a whole or
\* reports an error and changes nothing.

\* applyTransactionUpdates' map from a provider transaction to a table row
TransactionRow(userId, tx) ==
    [user_id |-> userId,
     account_id |-> tx.account_id,
     transaction_id |-> tx.transaction_id,
     amount |-> tx.amount,
     currency |-> tx.iso_currency_code]

TransactionUpserts(userId, add, mod) ==
    MapSeq(add \o mod, LAMBDA tx : TransactionRow(userId, tx))

\* INSERT ... ON CONFLICT (transaction_id) DO UPDATE refuses a batch that
\* proposes two rows with the same key ("cannot affect row a second time")
ConflictFree(batch) ==
    \A i, j \in DOMAIN batch :
        batch[i].transaction_id = batch[j].transaction_id => i = j

\* UpsertTransactions as a plain insert: the rows of the same key stay
InsertTransactions(table, batch) == table \cup Range(batch)

\* .from('transactions').upsert(batch, {onConflict: 'transaction_id'})
UpsertTransactions(table, batch) ==
    { r \in table : \A i \in DOMAIN batch :
                        r.transaction_id # batch[i].transaction_id }
    \cup Range(batch)

\* DeleteTransactions with .eq('transaction_id', ids[0]) for .in(...)
DeleteFirstTransaction(table, ids) ==
    { r \in table : r.transaction_id # Head(ids) }

\* .from('transactions').delete().in('transaction_id', ids)
DeleteTransactions(table, ids) ==
    { r \in table : r.transaction_id \notin Range(ids) }

\* UpdateCursor without .eq('item_id', itemId): every row is updated
UpdateCursorOfAll(table, itemId, c) ==
    { [r EXCEPT !.cursor = c] : r \in table }

\* .from('items').update({cursor}).eq('item_id', itemId)
UpdateCursor(table, itemId, c) ==
    { IF r.item_id = itemId THEN [r EXCEPT !.cursor = c] ELSE r : r \in table }

\* .from('items').select('cursor').eq('item_id', itemId).single()
\*   .then((res) => res.data?.cursor || null)
\* readOk = FALSE is the select reporting an error (data is null)
SelectCursor(table, itemId, readOk) ==
    LET rows == { r \in table : r.item_id = itemId } IN
    IF readOk /\ Cardinality(rows) = 1
    THEN LET c == (CHOOSE r \in rows : TRUE).cursor IN
         IF c \in {NullCursor, EmptyCursor} THEN NullCursor ELSE c
    ELSE NullCursor

\* applyTransactionUpdates when no call fails: the tables after it
ApplyTransactionUpdates(tabs, uid, itemId, add, mod, rem, c) ==
    LET upserted == UpsertTransactions(tabs.transactions,
                                       TransactionUpserts(uid, add, mod))
    IN [transactions |-> IF Len(rem) > 0
                         THEN DeleteTransactions(upserted, rem) ELSE upserted,
        items |-> UpdateCursor(tabs.items, itemId, c)]

\* ------------------------------------------------------------------ state
VARIABLES
    provider,       \* the provider's change log for the access token
    items,          \* table items
    accounts,       \* table accounts
    transactions,   \* table transactions
    pc,             \* per caller: where its syncTransactions invocation is
    arg,            \* per caller: the itemId argument
    cursor,         \* per caller: the local `cursor`
    added,          \* per caller: the local `added`
    modified,       \* per caller: the local `modified`
    removed,        \* per caller: the local `removed`
    userId,         \* per caller: applyTransactionUpdates' `userId`
    logged,         \* per caller: the error console.error printed in the catch
    outcome,        \* per caller: what syncTransactions gave its caller
    pre,            \* history: the tables when the invocation started
    fetched,        \* history: the pages the invocation received, in order
    wrote,          \* history: the storage steps of the invocation that applied
    failedAt,       \* history: the call of the invocation that failed
    auth,           \* history: what auth.getUser() answered the invocation
    call,           \* the last completed call of one of the other operations
    loaded,         \* history: how the invocation's read of the cursor went
    last,           \* history: the invocation before this one, when it failed
    refresh         \* history: the last answer of accountsGet and the table then

tables == <<items, accounts, transactions>>
locals == <<cursor, added, modified, removed, userId>>
history == <<pre, fetched, wrote, failedAt, auth>>
notes == <<loaded, last, refresh>>
vars == <<provider, items, accounts, transactions, pc, arg, cursor, added,
          modified, removed, userId, logged, outcome, pre, fetched, wrote,
          failedAt, auth, call, loaded, last, refresh>>

NoOutcome == [status |-> "none", message |-> ""]
NoAnswer == [error |-> FALSE, id |-> "unasked"]
NoCall == [op |-> "none", status |-> "none", message |-> "", failed |-> "none",
           auth |-> NoAnswer]
NoTables == [items |-> {}, transactions |-> {}]
NoLoad == [asked |-> FALSE, ok |-> FALSE, rows |-> {}]
NoLast == [failed |-> FALSE, at |-> "none", readOk |-> FALSE, pre |-> NoTables]
NoRefresh == [snapshot |-> << >>, name |-> "", before |-> {}, items |-> {},
              again |-> FALSE]

InitFrom(logs, itemTables, transactionTables) ==
    /\ provider \in logs
    /\ items \in itemTables
    /\ accounts = {}
    /\ transactions \in transactionTables
    /\ pc = [p \in Procs |-> "idle"]
    /\ arg = [p \in Procs |-> "A"]
    /\ cursor = [p \in Procs |-> NullCursor]
    /\ added = [p \in Procs |-> << >>]
    /\ modified = [p \in Procs |-> << >>]
    /\ removed = [p \in Procs |-> << >>]
    /\ userId = [p \in Procs |-> NoUser]
    /\ logged = [p \in Procs |-> ""]
    /\ outcome = [p \in Procs |-> NoOutcome]
    /\ pre = [p \in Procs |-> NoTables]
    /\ fetched = [p \in Procs |-> << >>]
    /\ wrote = [p \in Procs |-> {}]
    /\ failedAt = [p \in Procs |-> "none"]
    /\ auth = [p \in Procs |-> NoAnswer]
    /\ call = NoCall
    /\ loaded = [p \in Procs |-> NoLoad]
    /\ last = NoLast
    /\ refresh = NoRefresh

\* a start whose transactions table is empty
InitOver(logs, itemTables) == InitFrom(logs, itemTables, { {} })

\* the state after construction: no table has a row
InitWith(logs) == InitOver(logs, { {} })

\* ------------------------------------------------------------- getUserId
\* what supabase.auth.getUser() can answer
AuthAnswers ==
    { [error |-> FALSE, id |-> u] : u \in Users \cup {NoUser} }
    \cup { [error |-> TRUE, id |-> NoUser] }

\* GetUserIdThrows with `if (error)` alone: a missing user id passes
GetUserIdThrowsOnErrorOnly(ans) == ans.error

\* getUserId throws 'User not found' on  error || !data?.user?.id
GetUserIdThrows(ans) == ans.error \/ ans.id = NoUser

\* ------------------------------------------------------- syncTransactions
\* SyncCatch that prints the error and falls through to the acknowledgment
SyncCatchReturningOk(p, message, step) ==
    /\ pc' = [pc EXCEPT ![p] = "done"]
    /\ logged' = [logged EXCEPT ![p] = message]
    /\ outcome' = [outcome EXCEPT ![p] =
                      [status |-> "ok", message |-> SyncOkMessage]]
    /\ failedAt' = [failedAt EXCEPT ![p] = step]

\* the catch of syncTransactions: whatever was thrown inside the try is
\* printed and replaced by 'Failed to sync transactions'
SyncCatch(p, message, step) ==
    /\ pc' = [pc EXCEPT ![p] = "done"]
    /\ logged' = [logged EXCEPT ![p] = message]
    /\ outcome' = [outcome EXCEPT ![p] =
                      [status |-> "error", message |-> SyncFailedMessage]]
    /\ failedAt' = [failedAt EXCEPT ![p] = step]

\* the caller invokes syncTransactions(accessToken, itemId)
Invoke(p, itemId) ==
    /\ pc[p] = "idle"
    /\ pc' = [pc EXCEPT ![p] = "load"]
    /\ arg' = [arg EXCEPT ![p] = itemId]
    /\ call' = NoCall
    /\ UNCHANGED <<notes, provider, tables, locals, logged, outcome, fetched, wrote,
                   failedAt, auth>>

\* let cursor = await supabase.from('items').select('cursor')... when the
\* select answers with rows (readOk) or with an error: the answer's error is
\* not looked at, so neither throws
\* LoadCursorWith that throws when the select reports an error or no row
LoadCursorThrowing(p, readOk) ==
    /\ pc[p] = "load"
    /\ IF readOk /\ \E r \in items : r.item_id = arg[p]
       THEN /\ cursor' = [cursor EXCEPT ![p] = SelectCursor(items, arg[p], readOk)]
            /\ pc' = [pc EXCEPT ![p] = "fetch"]
            /\ UNCHANGED <<logged, outcome, history>>
       ELSE /\ SyncCatch(p, "cursor read failed", "load")
            /\ UNCHANGED <<cursor, pre, fetched, wrote, auth>>
    /\ UNCHANGED <<last, refresh, provider, tables, arg, added, modified,
                   removed, userId, call>>

LoadCursorWith(p, readOk) ==
    /\ pc[p] = "load"
    /\ cursor' = [cursor EXCEPT ![p] = SelectCursor(items, arg[p], readOk)]
    /\ pc' = [pc EXCEPT ![p] = "fetch"]
    /\ UNCHANGED <<last, refresh, provider, tables, arg, added, modified,
                   removed, userId, logged, outcome, history, call>>

LoadCursor(p) ==
    \E readOk \in BOOLEAN : LoadCursorWith(p, readOk) /\ UNCHANGED loaded

\* history: how the read went and the rows of the item it was asked for
NoteLoad(p, readOk) ==
    loaded' = [loaded EXCEPT ![p] =
                  [asked |-> TRUE, ok |-> readOk,
                   rows |-> { r \in items : r.item_id = arg[p] }]]

LoadCursorNoted(p) ==
    \E readOk \in BOOLEAN : LoadCursorWith(p, readOk) /\ NoteLoad(p, readOk)

\* Accumulate with `added = data.added`: the earlier pages' additions are lost
AccumulateOverwritingAdded(acc, data) ==
    [added |-> data.added,
     modified |-> acc.modified \o data.modified,
     removed |-> acc.removed \o MapSeq(data.removed, LAMBDA t : t.transaction_id),
     hasMore |-> data.has_more,
     cursor |-> data.next_cursor]

\* the body of the while loop on one answer of transactionsSync
Accumulate(acc, data) ==
    [added |-> acc.added \o data.added,
     modified |-> acc.modified \o data.modified,
     removed |-> acc.removed \o MapSeq(data.removed, LAMBDA t : t.transaction_id),
     hasMore |-> data.has_more,
     cursor |-> data.next_cursor]

\* FetchPage with an iteration cap: the loop is left after the second page
FetchPageCapped(p) ==
    /\ pc[p] = "fetch"
    /\ LET data == TransactionsSync(provider, cursor[p])
           acc == Accumulate([added |-> added[p], modified |-> modified[p],
                              removed |-> removed[p]], data)
       IN /\ added' = [added EXCEPT ![p] = acc.added]
          /\ modified' = [modified EXCEPT ![p] = acc.modified]
          /\ removed' = [removed EXCEPT ![p] = acc.removed]
          /\ cursor' = [cursor EXCEPT ![p] = acc.cursor]
          /\ pc' = [pc EXCEPT ![p] = IF acc.hasMore /\ Len(fetched[p]) < 1
                                     THEN "fetch" ELSE "user"]
          /\ fetched' = [fetched EXCEPT ![p] = Append(@, data)]
    /\ UNCHANGED <<notes, provider, tables, arg, userId, logged, outcome, pre, wrote,
                   failedAt, auth, call>>

\* FetchPage that calls transactionsSync without the cursor: every call asks
\* from the beginning
FetchPageWithoutCursor(p) ==
    /\ pc[p] = "fetch"
    /\ LET data == TransactionsSync(provider, NullCursor)
           acc == Accumulate([added |-> added[p], modified |-> modified[p],
                              removed |-> removed[p]], data)
       IN /\ added' = [added EXCEPT ![p] = acc.added]
          /\ modified' = [modified EXCEPT ![p] = acc.modified]
          /\ removed' = [removed EXCEPT ![p] = acc.removed]
          /\ cursor' = [cursor EXCEPT ![p] = acc.cursor]
          /\ pc' = [pc EXCEPT ![p] = IF acc.hasMore THEN "fetch" ELSE "user"]
          /\ fetched' = [fetched EXCEPT ![p] = Append(@, data)]
    /\ UNCHANGED <<notes, provider, tables, arg, userId, logged, outcome, pre, wrote,
                   failedAt, auth, call>>

\* one iteration of while (hasMore): the call returns a page
FetchPage(p) ==
    /\ pc[p] = "fetch"
    /\ LET data == TransactionsSync(provider, cursor[p])
           acc == Accumulate([added |-> added[p], modified |-> modified[p],
                              removed |-> removed[p]], data)
       IN /\ added' = [added EXCEPT ![p] = acc.added]
          /\ modified' = [modified EXCEPT ![p] = acc.modified]
          /\ removed' = [removed EXCEPT ![p] = acc.removed]
          /\ cursor' = [cursor EXCEPT ![p] = acc.cursor]
          /\ pc' = [pc EXCEPT ![p] = IF acc.hasMore THEN "fetch" ELSE "user"]
          /\ fetched' = [fetched EXCEPT ![p] = Append(@, data)]
    /\ UNCHANGED <<notes, provider, tables, arg, userId, logged, outcome, pre, wrote,
                   failedAt, auth, call>>

\* FetchFails with the accumulated additions written before the error leaves
FetchFailsApplyingPartial(p) ==
    /\ pc[p] = "fetch"
    /\ SyncCatch(p, FetchErrorMessage, "fetch")
    /\ transactions' = UpsertTransactions(transactions,
                            TransactionUpserts("u1", added[p], << >>))
    /\ UNCHANGED <<notes, provider, items, accounts, arg, locals, pre, fetched, wrote,
                   auth, call>>

\* one iteration of while (hasMore): the call rejects
FetchFails(p) ==
    /\ pc[p] = "fetch"
    /\ SyncCatch(p, FetchErrorMessage, "fetch")
    /\ UNCHANGED <<notes, provider, tables, arg, locals, pre, fetched, wrote, auth,
                   call>>

\* applyTransactionUpdates: const userId = await getUserId()
ApplyGetUser(p) ==
    /\ pc[p] = "user"
    /\ \E ans \in AuthAnswers :
          /\ auth' = [auth EXCEPT ![p] = ans]
          /\ IF GetUserIdThrows(ans)
             THEN /\ SyncCatch(p, UserNotFoundMessage, "user")
                  /\ UNCHANGED userId
             ELSE /\ userId' = [userId EXCEPT ![p] = ans.id]
                  /\ pc' = [pc EXCEPT ![p] = "upsert"]
                  /\ UNCHANGED <<logged, outcome, failedAt>>
    /\ UNCHANGED <<notes, provider, tables, arg, cursor, added, modified, removed,
                   pre, fetched, wrote, call>>

\* ApplyUpsert without the `throw` on upsertError: the later steps follow
ApplyUpsertIgnoringError(p) ==
    /\ pc[p] = "upsert"
    /\ LET batch == TransactionUpserts(userId[p], added[p], modified[p]) IN
       \/ /\ ConflictFree(batch)
          /\ transactions' = UpsertTransactions(transactions, batch)
          /\ wrote' = [wrote EXCEPT ![p] = @ \cup {"upsert"}]
          /\ UNCHANGED failedAt
       \/ /\ failedAt' = [failedAt EXCEPT ![p] = "upsert"]
          /\ UNCHANGED <<transactions, wrote>>
    /\ pc' = [pc EXCEPT ![p] =
                 IF Len(removed[p]) > 0 THEN "delete" ELSE "commit"]
    /\ UNCHANGED <<notes, provider, items, accounts, arg, locals, pre, fetched, auth,
                   call, logged, outcome>>

\* ApplyUpsert that saves the cursor along with the rows, before the delete
ApplyUpsertSavingCursor(p) ==
    /\ pc[p] = "upsert"
    /\ LET batch == TransactionUpserts(userId[p], added[p], modified[p]) IN
       \/ /\ ConflictFree(batch)
          /\ transactions' = UpsertTransactions(transactions, batch)
          /\ items' = UpdateCursor(items, arg[p], cursor[p])
          /\ wrote' = [wrote EXCEPT ![p] = @ \cup {"upsert"}]
          /\ pc' = [pc EXCEPT ![p] =
                       IF Len(removed[p]) > 0 THEN "delete" ELSE "commit"]
          /\ UNCHANGED <<logged, outcome, failedAt>>
       \/ /\ SyncCatch(p, UpsertErrorMessage, "upsert")
          /\ UNCHANGED <<transactions, items, wrote>>
    /\ UNCHANGED <<notes, provider, accounts, arg, locals, pre, fetched, auth,
                   call>>

\* applyTransactionUpdates: the upsert of [...added, ...modified]
ApplyUpsert(p) ==
    /\ pc[p] = "upsert"
    /\ LET batch == TransactionUpserts(userId[p], added[p], modified[p]) IN
       \/ /\ ConflictFree(batch)
          /\ transactions' = UpsertTransactions(transactions, batch)
          /\ wrote' = [wrote EXCEPT ![p] = @ \cup {"upsert"}]
          /\ pc' = [pc EXCEPT ![p] =
                       IF Len(removed[p]) > 0 THEN "delete" ELSE "commit"]
          /\ UNCHANGED <<logged, outcome, failedAt>>
       \/ /\ SyncCatch(p, UpsertErrorMessage, "upsert")
          /\ UNCHANGED <<transactions, wrote>>
    /\ UNCHANGED <<notes, provider, items, accounts, arg, locals, pre, fetched, auth,
                   call>>

\* ApplyDelete without the `throw` on deleteError: the cursor commit follows
ApplyDeleteIgnoringError(p) ==
    /\ pc[p] = "delete"
    /\ \/ /\ transactions' = DeleteTransactions(transactions, removed[p])
          /\ wrote' = [wrote EXCEPT ![p] = @ \cup {"delete"}]
          /\ UNCHANGED failedAt
       \/ /\ failedAt' = [failedAt EXCEPT ![p] = "delete"]
          /\ UNCHANGED <<transactions, wrote>>
    /\ pc' = [pc EXCEPT ![p] = "commit"]
    /\ UNCHANGED <<notes, provider, items, accounts, arg, locals, pre, fetched, auth,
                   call, logged, outcome>>

\* applyTransactionUpdates: the delete of the removed identifiers
ApplyDelete(p) ==
    /\ pc[p] = "delete"
    /\ \/ /\ transactions' = DeleteTransactions(transactions, removed[p])
          /\ wrote' = [wrote EXCEPT ![p] = @ \cup {"delete"}]
          /\ pc' = [pc EXCEPT ![p] = "commit"]
          /\ UNCHANGED <<logged, outcome, failedAt>>
       \/ /\ SyncCatch(p, DeleteErrorMessage, "delete")
          /\ UNCHANGED <<transactions, wrote>>
    /\ UNCHANGED <<notes, provider, items, accounts, arg, locals, pre, fetched, auth,
                   call>>

\* applyTransactionUpdates: the update of the item's cursor, and the return
\* of syncTransactions after it
ApplyCursor(p) ==
    /\ pc[p] = "commit"
    /\ \/ /\ items' = UpdateCursor(items, arg[p], cursor[p])
          /\ wrote' = [wrote EXCEPT ![p] = @ \cup {"cursor"}]
          /\ pc' = [pc EXCEPT ![p] = "done"]
          /\ outcome' = [outcome EXCEPT ![p] =
                            [status |-> "ok", message |-> SyncOkMessage]]
          /\ UNCHANGED <<logged, failedAt>>
       \/ /\ SyncCatch(p, CursorErrorMessage, "cursor")
          /\ UNCHANGED <<items, wrote>>
    /\ UNCHANGED <<notes, provider, accounts, transactions, arg, locals, pre,
                   fetched, auth, call>>

\* the caller has the result; the invocation's frame is gone
SyncReturns(p) ==
    /\ pc[p] = "done"
    /\ pc' = [pc EXCEPT ![p] = "idle"]
    /\ cursor' = [cursor EXCEPT ![p] = NullCursor]
    /\ added' = [added EXCEPT ![p] = << >>]
    /\ modified' = [modified EXCEPT ![p] = << >>]
    /\ removed' = [removed EXCEPT ![p] = << >>]
    /\ userId' = [userId EXCEPT ![p] = NoUser]
    /\ logged' = [logged EXCEPT ![p] = ""]
    /\ outcome' = [outcome EXCEPT ![p] = NoOutcome]
    /\ pre' = [pre EXCEPT ![p] = NoTables]
    /\ fetched' = [fetched EXCEPT ![p] = << >>]
    /\ wrote' = [wrote EXCEPT ![p] = {}]
    /\ failedAt' = [failedAt EXCEPT ![p] = "none"]
    /\ auth' = [auth EXCEPT ![p] = NoAnswer]
    /\ arg' = [arg EXCEPT ![p] = "A"]
    /\ UNCHANGED <<refresh, provider, tables, call>>

Return(p) == SyncReturns(p) /\ UNCHANGED <<loaded, last>>

\* history: an invocation that failed is remembered with the tables it found
NoteReturn(p) ==
    /\ loaded' = [loaded EXCEPT ![p] = NoLoad]
    /\ last' = IF outcome[p].status = "error"
               THEN [failed |-> TRUE, at |-> failedAt[p],
                     readOk |-> loaded[p].ok, pre |-> pre[p]]
               ELSE NoLast

ReturnNoted(p) == SyncReturns(p) /\ NoteReturn(p)

\* history: the tables as the invocation found them
Snapshot(p) ==
    pre' = [pre EXCEPT ![p] = [items |-> items, transactions |-> transactions]]

SyncStep(p) ==
    \/ LoadCursor(p)
    \/ FetchPage(p)
    \/ FetchFails(p)
    \/ ApplyGetUser(p)
    \/ ApplyUpsert(p)
    \/ ApplyDelete(p)
    \/ ApplyCursor(p)
    \/ Return(p)

\* ----------------------------------------------------- the other operations
\* Their awaits touch no table before the single write, so each call is one
\* step; `call` keeps what the call gave its caller and which call failed.
InstitutionNames == {"", "Bank"}          \* item.institution_name, "" = absent
Balances == {10, 20}
AccountIds == {"a1"}
MaxAccounts == 1                          \* accounts of one snapshot

\* item.institution_name || 'Unknown Institution'
InstitutionName(n) == IF n = "" THEN "Unknown Institution" ELSE n

Completed(op, status, message, failed, ans) ==
    [op |-> op, status |-> status, message |-> message, failed |-> failed,
     auth |-> ans]

\* the row storePlaidItem inserts; the cursor column is not set
ItemRow(u, itemId, name) ==
    [user_id |-> u, item_id |-> itemId,
     institution_name |-> InstitutionName(name), cursor |-> NullCursor]

\* storePlaidItem(accessToken, item); item_id is the table's unique key
StorePlaidItem(itemId, name) ==
    /\ \E ans \in AuthAnswers :
          IF GetUserIdThrows(ans)
          THEN /\ call' = Completed("storePlaidItem", "error",
                                    UserNotFoundMessage, "user", ans)
               /\ UNCHANGED items
          ELSE \/ /\ \A r \in items : r.item_id # itemId
                  /\ items' = items \cup {ItemRow(ans.id, itemId, name)}
                  /\ call' = Completed("storePlaidItem", "ok",
                                "Successfully stored Plaid item", "none", ans)
               \/ /\ call' = Completed("storePlaidItem", "error",
                                "Error storing Plaid item", "insert", ans)
                  /\ UNCHANGED items
    /\ UNCHANGED <<notes, provider, accounts, transactions, pc, arg, locals, logged,
                   outcome, history>>

\* an AccountBase of the provider's snapshot
Account(a, bal) ==
    [account_id |-> a, balances |-> [current |-> bal, iso_currency_code |-> "USD"]]

Snapshots ==
    SeqsUpTo({ Account(a, bal) : a \in AccountIds, bal \in Balances }, MaxAccounts)

\* storePlaidAccounts' map from an AccountBase to a table row
AccountRow(u, account, itemId, name) ==
    [user_id |-> u, item_id |-> itemId,
     account_id |-> account.account_id,
     current_balance |-> account.balances.current,
     currency |-> account.balances.iso_currency_code,
     institution_name |-> InstitutionName(name)]

\* UpsertAccounts as a plain insert: the rows of the same key stay
InsertAccounts(table, batch) == table \cup Range(batch)

\* .from('accounts').upsert(insertData, {onConflict: 'account_id'})
UpsertAccounts(table, batch) ==
    { r \in table : \A i \in DOMAIN batch : r.account_id # batch[i].account_id }
    \cup Range(batch)

AccountsConflictFree(batch) ==
    \A i, j \in DOMAIN batch : batch[i].account_id = batch[j].account_id => i = j

\* an error of storePlaidAccounts as the caller of `op` sees it: the catch of
\* fetchAndStoreAccounts replaces it by 'Failed to fetch accounts'
AccountsError(op, message, failed, ans) ==
    Completed(op, "error",
              IF op = "fetchAndStoreAccounts"
              THEN "Failed to fetch accounts" ELSE message,
              failed, ans)

\* the body of storePlaidAccounts(accounts, item), run for the caller of `op`
StorePlaidAccountsBody(op, snapshot, itemId, name) ==
    \E ans \in AuthAnswers :
       IF GetUserIdThrows(ans)
       THEN /\ call' = AccountsError(op, UserNotFoundMessage, "user", ans)
            /\ UNCHANGED accounts
       ELSE LET batch == MapSeq(snapshot,
                            LAMBDA account : AccountRow(ans.id, account, itemId, name))
            IN \/ /\ AccountsConflictFree(batch)
                  /\ accounts' = UpsertAccounts(accounts, batch)
                  /\ call' = Completed(op, "ok",
                                "Successfully stored accounts", "none", ans)
               \/ /\ call' = AccountsError(op, "Error inserting accounts",
                                           "upsert", ans)
                  /\ UNCHANGED accounts

\* storePlaidAccounts(accounts, item) called directly
StorePlaidAccounts(snapshot, itemId, name) ==
    /\ StorePlaidAccountsBody("storePlaidAccounts", snapshot, itemId, name)
    /\ UNCHANGED <<notes, provider, items, transactions, pc, arg, locals, logged,
                   outcome, history>>

\* fetchAndStoreAccounts when plaidClient.accountsGet rejects
AccountsGetRejects ==
    /\ call' = AccountsError("fetchAndStoreAccounts", "accountsGet rejected",
                             "fetch", NoAnswer)
    /\ UNCHANGED accounts

\* fetchAndStoreAccounts(accessToken): accountsGet, then storePlaidAccounts
\* on its answer
FetchAndStoreAccounts(itemId) ==
    /\ \/ AccountsGetRejects
       \/ \E snapshot \in Snapshots, name \in InstitutionNames :
             StorePlaidAccountsBody("fetchAndStoreAccounts", snapshot, itemId, name)
    /\ UNCHANGED <<notes, provider, items, transactions, pc, arg, locals, logged,
                   outcome, history>>

\* snapshots of several accounts, for the refresh followed on its own
MaxRefreshAccounts == 2
RefreshAccountIds == {"a1", "a2"}

RefreshSnapshots ==
    SeqsUpTo({ Account(a, bal) : a \in RefreshAccountIds, bal \in Balances },
             MaxRefreshAccounts)

\* history: the answer of accountsGet, the tables before storePlaidAccounts
\* ran on it, and whether the call before this one was the same refresh,
\* successful
NoteRefresh(snapshot, name) ==
    refresh' = [snapshot |-> snapshot, name |-> name, before |-> accounts,
                items |-> items,
                again |-> /\ call.op = "fetchAndStoreAccounts"
                          /\ call.status = "ok"
                          /\ refresh.snapshot = snapshot
                          /\ refresh.name = name]

FetchAndStoreAccountsNoted(itemId) ==
    /\ \/ AccountsGetRejects /\ UNCHANGED refresh
       \/ \E snapshot \in RefreshSnapshots, name \in InstitutionNames :
             /\ StorePlaidAccountsBody("fetchAndStoreAccounts", snapshot,
                                       itemId, name)
             /\ NoteRefresh(snapshot, name)
    /\ UNCHANGED <<loaded, last, provider, items, transactions, pc, arg, locals,
                   logged, outcome, history>>

\* fetchAccounts() and fetchTransactions(): reads of the user's rows
FetchRows(op) ==
    /\ \E ans \in AuthAnswers, selectOk \in BOOLEAN :
          call' = IF GetUserIdThrows(ans)
                  THEN Completed(op, "error", UserNotFoundMessage, "user", ans)
                  ELSE IF selectOk
                  THEN Completed(op, "ok", "", "none", ans)
                  ELSE Completed(op, "error",
                                 IF op = "fetchAccounts"
                                 THEN "Error fetching accounts"
                                 ELSE "Error fetching transactions",
                                 "select", ans)
    /\ UNCHANGED <<notes, provider, tables, pc, arg, locals, logged, outcome, history>>

\* ------------------------------------------------------- specifications
MaxLogEntries == 1      \* entries of a whole log, where callers overlap

RECURSIVE Entries(_)
Entries(l) ==
    IF l = << >> THEN 0
    ELSE Len(Head(l).added) + Len(Head(l).modified) + Len(Head(l).removed)
         + Entries(Tail(l))

SparseLogs == { l \in LogsOver({"t1"}) : Entries(l) <= MaxLogEntries }

\* The server actions, called one after the other by one caller.
Init == InitWith(SparseLogs)

Next ==
    \/ \E itemId \in ItemIds : Invoke("p1", itemId) /\ UNCHANGED pre
    \/ SyncStep("p1")
    \/ \E itemId \in ItemIds :
          /\ pc["p1"] = "idle"
          /\ StorePlaidItem(itemId, IF itemId = "A" THEN "Bank" ELSE "")
    \/ \E snapshot \in Snapshots, name \in InstitutionNames :
          pc["p1"] = "idle" /\ StorePlaidAccounts(snapshot, "A", name)
    \/ pc["p1"] = "idle" /\ FetchAndStoreAccounts("A")
    \/ \E op \in {"fetchAccounts", "fetchTransactions"} :
          pc["p1"] = "idle" /\ FetchRows(op)

Spec == Init /\ [][Next]_vars

\* syncTransactions and storePlaidItem called by two callers at any time:
\* nothing in the code keeps two invocations apart.
NextConc ==
    \/ \E p \in Procs : Invoke(p, "A") /\ UNCHANGED pre
    \/ \E p \in Procs : SyncStep(p)
    \/ StorePlaidItem("A", "Bank")

SpecConc == Init /\ [][NextConc]_vars

\* One caller that invokes syncTransactions on item A again and again, each
\* invocation after the one before it returned, on every log.
InitSeq == InitWith(LogsOver(TxIds))

NextSeq ==
    \/ Invoke("p1", "A") /\ Snapshot("p1")
    \/ SyncStep("p1")
    \/ pc["p1"] = "idle" /\ StorePlaidItem("A", "Bank")

SpecSeq == InitSeq /\ [][NextSeq]_vars

\* One caller on item A, with providers that end and providers that never
\* say has_more = false.  The loop of syncTransactions has no cap of its own;
\* MaxFetches bounds the calls of transactionsSync one invocation is followed
\* through: an invocation that made them all and is still in its loop stays
\* there.  Every call the invocation awaits returns, with an answer or with
\* an error.
MaxFetches == 4

LiveLogs ==
    SparseLogs \cup { l \in StuckLogs({"t1"}) : Entries(l) <= MaxLogEntries }

InitLive == InitWith(LiveLogs)

NextLive ==
    \/ Invoke("p1", "A") /\ UNCHANGED pre
    \/ LoadCursor("p1")
    \/ Len(fetched["p1"]) < MaxFetches /\ FetchPage("p1")
    \/ Len(fetched["p1"]) < MaxFetches /\ FetchFails("p1")
    \/ ApplyGetUser("p1")
    \/ ApplyUpsert("p1")
    \/ ApplyDelete("p1")
    \/ ApplyCursor("p1")
    \/ Return("p1")
    \/ pc["p1"] = "idle" /\ StorePlaidItem("A", "Bank")

CallReturns(p) ==
    \/ LoadCursor(p)
    \/ Len(fetched[p]) < MaxFetches /\ FetchPage(p)
    \/ Len(fetched[p]) < MaxFetches /\ FetchFails(p)
    \/ ApplyGetUser(p)
    \/ ApplyUpsert(p)
    \/ ApplyDelete(p)
    \/ ApplyCursor(p)

SpecLive == InitLive /\ [][NextLive]_vars /\ WF_vars(CallReturns("p1"))

\* The account refresh on its own, on items that have or have not been
\* synced, with snapshots of up to MaxRefreshAccounts accounts.
SyncedItems ==
    { {} } \cup
    { { [ItemRow("u1", "A", "Bank") EXCEPT !.cursor = c] } :
         c \in {NullCursor, Token(1)} }

InitAcct == InitOver({ << >> }, SyncedItems)

NextAcct ==
    \/ FetchAndStoreAccountsNoted("A")
    \/ StorePlaidItem("A", "Bank")

SpecAcct == InitAcct /\ [][NextAcct]_vars

\* SpecSeq's caller, with the history of how each read of the cursor went
\* and of the invocation that failed last.
NextNoted ==
    \/ Invoke("p1", "A") /\ Snapshot("p1")
    \/ LoadCursorNoted("p1")
    \/ FetchPage("p1")
    \/ FetchFails("p1")
    \/ ApplyGetUser("p1")
    \/ ApplyUpsert("p1")
    \/ ApplyDelete("p1")
    \/ ApplyCursor("p1")
    \/ ReturnNoted("p1")
    \/ pc["p1"] = "idle" /\ StorePlaidItem("A", "Bank")

MaxNotedEntries == 2    \* entries of a whole log, where history is kept

NotedLogs == { l \in LogsOver(TxIds) : Entries(l) <= MaxNotedEntries }

InitNoted == InitWith(NotedLogs)

SpecNoted == InitNoted /\ [][NextNoted]_vars

\* Two items and a transactions table that may already hold a row of an
\* earlier sync which the provider's log no longer mentions: every operation
\* of the module runs, one at a time.
EarlierRows ==
    { {}, {TransactionRow("u1", Transaction("t2", 1))} }

InitFrame == InitFrom(SparseLogs, { {} }, EarlierRows)

SpecFrame == InitFrame /\ [][Next]_vars

\* ================================================================ claims
Done(p) == pc[p] = "done"
Succeeded(p) == Done(p) /\ outcome[p].status = "ok"
Failed(p) == Done(p) /\ outcome[p].status = "error"

\* applyTransactionUpdates has been called by the invocation
ApplyCalled(p) ==
    \/ pc[p] \in {"user", "upsert", "delete", "commit"}
    \/ Done(p) /\ failedAt[p] # "fetch"

RECURSIVE AllAdded(_)
AllAdded(pages) ==
    IF pages = << >> THEN << >> ELSE Head(pages).added \o AllAdded(Tail(pages))

RECURSIVE AllModified(_)
AllModified(pages) ==
    IF pages = << >> THEN << >> ELSE Head(pages).modified \o AllModified(Tail(pages))

RECURSIVE AllRemovedIds(_)
AllRemovedIds(pages) ==
    IF pages = << >> THEN << >>
    ELSE [i \in DOMAIN Head(pages).removed |-> Head(pages).removed[i].transaction_id]
         \o AllRemovedIds(Tail(pages))

\* the cursors the item's rows hold
StoredCursors(table, itemId) == { r.cursor : r \in { x \in table : x.item_id = itemId } }

\* C1: when the pages end with the only has_more = false, the invocation
\* hands applyTransactionUpdates the concatenation, in fetch order, of the
\* pages' added, modified and removed identifiers, and the cursor it commits
\* to the item row is the last page's next_cursor.
C1_DeltaIsConcatenation ==
    \A p \in Procs :
       /\ ApplyCalled(p) =>
             /\ Len(fetched[p]) >= 1
             /\ \A k \in 1..Len(fetched[p]) :
                   fetched[p][k].has_more <=> k < Len(fetched[p])
             /\ added[p] = AllAdded(fetched[p])
             /\ modified[p] = AllModified(fetched[p])
             /\ removed[p] = AllRemovedIds(fetched[p])
             /\ cursor[p] = fetched[p][Len(fetched[p])].next_cursor
       /\ Succeeded(p) =>
             \A c \in StoredCursors(items, arg[p]) :
                c = fetched[p][Len(fetched[p])].next_cursor

C1_Witness ==
    /\ Succeeded("p1")
    /\ Len(fetched["p1"]) = 2
    /\ Len(added["p1"]) = 2
    /\ added["p1"][1] # added["p1"][2]
    /\ Len(removed["p1"]) = 2
    /\ StoredCursors(items, "A") = {Token(2)}

\* C2: when the upsert applied and then the delete or the cursor commit
\* fails, the item's stored cursor is what it was before the invocation and
\* the caller gets an error; the stored cursor differs from its value before
\* the invocation only when upsert, delete and cursor commit all applied.
C2_CursorOnlyOnFullSuccess ==
    \A p \in Procs :
       pc[p] # "idle" =>
          /\ (Done(p) /\ failedAt[p] \in {"delete", "cursor"}) =>
                /\ "upsert" \in wrote[p]
                /\ items = pre[p].items
                /\ outcome[p] = [status |-> "error", message |-> SyncFailedMessage]
          /\ items # pre[p].items =>
                /\ Succeeded(p)
                /\ failedAt[p] = "none"
                /\ {"upsert", "cursor"} \subseteq wrote[p]
                /\ (Len(removed[p]) > 0 => "delete" \in wrote[p])

C2_Witness ==
    /\ Failed("p1")
    /\ failedAt["p1"] = "delete"
    /\ transactions # pre["p1"].transactions
    /\ cursor["p1"] = Token(2)
    /\ StoredCursors(items, "A") = {Token(1)}

\* C3: when a page fetch fails, on the first page or a later one, the
\* transactions table and the item's stored cursor are as before the
\* invocation and the caller gets the sync-failed error.
C3_FetchFailureAppliesNothing ==
    \A p \in Procs :
       (Done(p) /\ failedAt[p] = "fetch") =>
          /\ transactions = pre[p].transactions
          /\ items = pre[p].items
          /\ wrote[p] = {}
          /\ outcome[p] = [status |-> "error", message |-> SyncFailedMessage]

C3_Witness ==
    /\ Failed("p1")
    /\ failedAt["p1"] = "fetch"
    /\ Len(fetched["p1"]) = 1
    /\ Len(added["p1"]) = 1
    /\ Len(removed["p1"]) = 1
    /\ StoredCursors(items, "A") = {NullCursor}

\* the merged delta of the invocation is in the transactions table: every
\* upserted row whose identifier is not removed is there as upserted, and no
\* row has a removed identifier
DeltaApplied(p) ==
    LET batch == TransactionUpserts(userId[p], added[p], modified[p]) IN
    /\ \A i \in DOMAIN batch :
          batch[i].transaction_id \notin Range(removed[p]) =>
             batch[i] \in transactions
    /\ \A r \in transactions : r.transaction_id \notin Range(removed[p])

\* C4: over any sequence of invocations on one item, each failing anywhere
\* or not, the item's stored cursor is its initial value or the final
\* next_cursor of an invocation whose whole delta is in the table when the
\* cursor is committed: every change of the stored cursor to a value other
\* than the initial one is the commit of such an invocation.
C4_CursorBehindAppliedData ==
    [][ \A i \in ItemIds :
          ( /\ StoredCursors(items', i) # StoredCursors(items, i)
            /\ StoredCursors(items', i) # {NullCursor} ) =>
          \E p \in Procs :
             /\ arg'[p] = i
             /\ (Succeeded(p))'
             /\ StoredCursors(items', i) =
                   {fetched'[p][Len(fetched'[p])].next_cursor}
             /\ {"upsert", "cursor"} \subseteq wrote'[p]
             /\ (Len(removed'[p]) > 0 => "delete" \in wrote'[p])
             /\ (DeltaApplied(p))' ]_vars

C4_Witness ==
    /\ Succeeded("p1")
    /\ StoredCursors(items, "A") = {Token(2)}
    /\ StoredCursors(pre["p1"].items, "A") = {Token(1)}
    /\ Len(added["p1"]) = 1
    /\ Len(removed["p1"]) = 1
    /\ DeltaApplied("p1")
    /\ transactions # pre["p1"].transactions

IdsOf(txs) == { txs[i].transaction_id : i \in DOMAIN txs }

\* C6: a transaction identifier that is in the accumulated added or modified
\* list and in the accumulated removed list of one invocation, from the same
\* page or from different pages, has no row in the transactions table after
\* the invocation succeeds.
C6_RemovedWins ==
    \A p \in Procs :
       Succeeded(p) =>
          \A t \in (IdsOf(added[p]) \cup IdsOf(modified[p])) \cap Range(removed[p]) :
             \A r \in transactions : r.transaction_id # t

C6_Witness ==
    /\ Succeeded("p1")
    /\ Len(fetched["p1"]) = 2
    /\ fetched["p1"][1].added = << Transaction("t1", 1) >>
    /\ fetched["p1"][2].added = << Transaction("t2", 2) >>
    /\ fetched["p1"][2].removed = << RemovedTransaction("t1") >>
    /\ removed["p1"] = << "t1" >>
    /\ { r.transaction_id : r \in transactions } = {"t2"}
    /\ StoredCursors(items, "A") = {Token(2)}

\* C7: applyTransactionUpdates is idempotent: the tables an invocation
\* leaves when every step applied are the ones applyTransactionUpdates
\* computes from the tables it found, and applying the same delta to them
\* once more (the upsert is accepted again, the delete finds nothing to
\* delete) gives the same transactions table and the same item cursor; the
\* transactions table never has two rows with one transaction identifier.
C7_ApplyIdempotent ==
    /\ \A r1, r2 \in transactions :
          r1.transaction_id = r2.transaction_id => r1 = r2
    /\ \A p \in Procs :
          Succeeded(p) =>
             LET now == [transactions |-> transactions, items |-> items]
                 once == ApplyTransactionUpdates(pre[p], userId[p], arg[p],
                            added[p], modified[p], removed[p], cursor[p])
                 twice == ApplyTransactionUpdates(once, userId[p], arg[p],
                            added[p], modified[p], removed[p], cursor[p])
             IN /\ now = once
                /\ twice = once
                /\ ConflictFree(TransactionUpserts(userId[p], added[p], modified[p]))

C7_Witness ==
    /\ Succeeded("p1")
    /\ Len(added["p1"]) = 1
    /\ Len(modified["p1"]) = 1
    /\ Len(removed["p1"]) = 1
    /\ \E r \in pre["p1"].transactions : r \notin transactions
    /\ \E r \in transactions : r \notin pre["p1"].transactions
    /\ StoredCursors(items, "A") # StoredCursors(pre["p1"].items, "A")

\* the invocation has loaded the stored cursor and has neither committed a
\* cursor nor failed
InFlight(p) == pc[p] \in {"fetch", "user", "upsert", "delete", "commit"}

\* C5: invocations for the same item are serialized: no two of them are both
\* between their load of the stored cursor and their commit or failure.
C5_SameItemSerialized ==
    \A p, q \in Procs :
       (p # q /\ InFlight(p) /\ InFlight(q)) => arg[p] # arg[q]

\* C8: the caller gets the acknowledgment only when every page was fetched
\* and the upsert, the delete (when removed is not empty) and the cursor
\* commit applied; when a step fails the caller gets an error and not the
\* acknowledgment.
C8_AcknowledgedOnlyWhenAllApplied ==
    \A p \in Procs :
       /\ ~Done(p) => outcome[p] = NoOutcome
       /\ Done(p) =>
             /\ outcome[p].status \in {"ok", "error"}
             /\ outcome[p].status = "ok" =>
                   /\ outcome[p].message = SyncOkMessage
                   /\ failedAt[p] = "none"
                   /\ Len(fetched[p]) >= 1
                   /\ ~fetched[p][Len(fetched[p])].has_more
                   /\ {"upsert", "cursor"} \subseteq wrote[p]
                   /\ (Len(removed[p]) > 0 => "delete" \in wrote[p])
             /\ failedAt[p] # "none" =>
                   /\ outcome[p].status = "error"
                   /\ outcome[p].message # SyncOkMessage

C8_Witness ==
    /\ Failed("p1")
    /\ failedAt["p1"] = "cursor"
    /\ wrote["p1"] = {"upsert", "delete"}
    /\ Succeeded("p2")
    /\ wrote["p2"] = {"upsert", "cursor"}

\* auth.getUser() was asked and gave an error or no user id
Unresolved(ans) == ans # NoAnswer /\ (ans.error \/ ans.id \notin Users)

\* C9: when the user identity cannot be resolved, syncTransactions /
\* applyTransactionUpdates, storePlaidAccounts, fetchAndStoreAccounts and
\* storePlaidItem fail and write nothing: the step that gets the answer
\* leaves items, accounts and transactions as they are, the invocation has
\* applied no storage step, and the caller gets an error.
C9_NoWriteWithoutIdentity ==
    /\ [](\A p \in Procs : Unresolved(auth[p]) => Failed(p) /\ wrote[p] = {})
    /\ [](Unresolved(call.auth) => call.status = "error")
    /\ [][ ( \/ \E p \in Procs : auth'[p] # auth[p] /\ Unresolved(auth'[p])
             \/ call' # call /\ Unresolved(call'.auth) )
           => UNCHANGED <<items, accounts, transactions>> ]_vars

C9_Witness ==
    /\ Failed("p1")
    /\ auth["p1"] = [error |-> FALSE, id |-> NoUser]
    /\ Len(added["p1"]) = 1
    /\ arg["p1"] = "B"
    /\ StoredCursors(items, "B") = {NullCursor}
    /\ accounts # {}
    /\ transactions = {}

StorageSteps == {"upsert", "delete", "cursor"}

\* C10: a storage failure while the delta is applied reaches the caller of
\* syncTransactions as an error that tells which step failed: invocations
\* that failed at different storage steps give their callers different
\* errors.
C10_FailedStepDistinguishable ==
    \A p, q \in Procs :
       ( /\ Failed(p) /\ Failed(q)
         /\ failedAt[p] \in StorageSteps /\ failedAt[q] \in StorageSteps
         /\ failedAt[p] # failedAt[q] )
       => outcome[p] # outcome[q]

\* the cursors a call of transactionsSync can carry
Cursors == {NullCursor, EmptyCursor} \cup { Token(k) : k \in 1..MaxPages }

\* the provider keeps its contract: from every cursor it says has_more =
\* false after finitely many pages
ProviderEnds == \A c \in Cursors : EndsWithin(provider, c, MaxPages + 1)

LastFetched(p) == fetched[p][Len(fetched[p])]

\* C11: when every call returns and the provider comes to a page with
\* has_more = false, every invocation ends, with the acknowledgment or with
\* an error.  The loop has no cap: after a page with has_more = true the
\* invocation is still fetching (or a fetch failed), and while it fetches it
\* has applied no storage step and no table changes.
C11_TerminatesWithoutCap ==
    /\ \A p \in Procs : (pc[p] = "load" /\ ProviderEnds) ~> Done(p)
    /\ [](\A p \in Procs :
            /\ pc[p] \in {"load", "fetch"} => wrote[p] = {}
            /\ (Len(fetched[p]) > 0 /\ LastFetched(p).has_more) =>
                  \/ pc[p] = "fetch"
                  \/ Failed(p) /\ failedAt[p] = "fetch" /\ wrote[p] = {})
    /\ [][ (\E p \in Procs : pc[p] = "fetch" /\ pc'[p] = "fetch")
           => UNCHANGED <<items, accounts, transactions>> ]_vars

C11_Witness ==
    /\ Succeeded("p1")
    /\ ProviderEnds
    /\ Len(fetched["p1"]) = MaxPages
    /\ fetched["p1"][1].has_more
    /\ StoredCursors(items, "A") = {Token(MaxPages)}

\* the provider never ends and the invocation is still in its loop
C11_StillFetching ==
    /\ pc["p1"] = "fetch"
    /\ ~ProviderEnds
    /\ Len(fetched["p1"]) = MaxFetches
    /\ \A k \in 1..MaxFetches : fetched["p1"][k].has_more
    /\ wrote["p1"] = {}
    /\ items # {}

\* the last completed call is a fetchAndStoreAccounts that succeeded
Refreshed == call.op = "fetchAndStoreAccounts" /\ call.status = "ok"

\* the rows storePlaidAccounts makes of the refresh's snapshot
RefreshRows ==
    [i \in DOMAIN refresh.snapshot |->
        AccountRow(call.auth.id, refresh.snapshot[i], "A", refresh.name)]

\* C12: the account refresh is a last-write-wins upsert keyed by account
\* identifier: after fetchAndStoreAccounts succeeds the accounts table has
\* exactly one row for each account identifier of the snapshot, the row made
\* of the snapshot's values; the rows of other accounts are those that were
\* there; the same refresh run again leaves the table as it is; and the
\* items table, cursors included, is not written.
C12_RefreshIsIdempotentUpsert ==
    /\ \A r1, r2 \in accounts : r1.account_id = r2.account_id => r1 = r2
    /\ Refreshed =>
          /\ \A i \in DOMAIN RefreshRows :
                { r \in accounts : r.account_id = RefreshRows[i].account_id }
                   = { RefreshRows[i] }
          /\ \A r \in refresh.before \cup accounts :
                (\A i \in DOMAIN RefreshRows :
                     r.account_id # RefreshRows[i].account_id)
                => r \in refresh.before \cap accounts
          /\ UpsertAccounts(accounts, RefreshRows) = accounts
          /\ refresh.again => accounts = refresh.before
          /\ items = refresh.items

C12_Witness ==
    /\ Refreshed
    /\ refresh.snapshot = << Account("a1", 20) >>
    /\ \E r \in refresh.before : r.account_id = "a1" /\ r.current_balance = 10
    /\ \E r \in accounts : r.account_id = "a2"
    /\ StoredCursors(items, "A") = {Token(1)}

\* the same refresh ran twice in a row
C12_RanAgain ==
    /\ Refreshed
    /\ refresh.again
    /\ Len(refresh.snapshot) = 2
    /\ accounts = refresh.before

\* the identifiers that are in the accumulated added and in the accumulated
\* modified list of the invocation
InBoth(p) == IdsOf(added[p]) \cap IdsOf(modified[p])

\* the last entry of modified with identifier t
LastModified(p, t) ==
    modified[p][CHOOSE i \in DOMAIN modified[p] :
                   /\ modified[p][i].transaction_id = t
                   /\ \A j \in DOMAIN modified[p] :
                         modified[p][j].transaction_id = t => j <= i]

\* C13: when a transaction identifier is in the accumulated added and in the
\* accumulated modified list, the upsert step succeeds (the store accepts the
\* batch) and, once it has applied, the table has exactly one row for the
\* identifier, the row of the modified entry.
C13_ModifiedOverridesAdded ==
    \A p \in Procs :
       InBoth(p) # {} =>
          /\ pc[p] = "upsert" =>
                ENABLED (ApplyUpsert(p) /\ "upsert" \in wrote'[p])
          /\ pc[p] \in {"delete", "commit"} =>
                \A t \in InBoth(p) :
                   { r \in transactions : r.transaction_id = t }
                      = { TransactionRow(userId[p], LastModified(p, t)) }

\* the while loop of syncTransactions run to its end from cursor c (n bounds
\* the pages): the accumulated lists and the last next_cursor
RECURSIVE FetchAll(_, _, _, _)
FetchAll(log, c, acc, n) ==
    LET next == Accumulate(acc, TransactionsSync(log, c)) IN
    IF next.hasMore /\ n > 1 THEN FetchAll(log, next.cursor, next, n - 1)
    ELSE next

\* the tables one invocation of syncTransactions leaves when no call fails
\* (readOk: its read of the cursor answered without error)
SyncOnce(tabs, log, itemId, uid, readOk) ==
    LET d == FetchAll(log, SelectCursor(tabs.items, itemId, readOk),
                      [added |-> << >>, modified |-> << >>, removed |-> << >>],
                      MaxPages + 1)
    IN ApplyTransactionUpdates(tabs, uid, itemId, d.added, d.modified,
                               d.removed, d.cursor)

\* C14: after an invocation failed (at a page fetch, the upsert, the delete
\* or the cursor commit), the next invocation on the item, when it succeeds,
\* leaves the transactions table and the item cursor as one successful
\* invocation from the tables before the failed one leaves them.
C14_RetryEqualsOneSync ==
    \A p \in Procs :
       (Succeeded(p) /\ last.failed /\ last.pre.items = pre[p].items) =>
          [transactions |-> transactions, items |-> items]
             = SyncOnce(last.pre, provider, arg[p], userId[p], loaded[p].ok)

\* the rows of user uid the provider's log stands for after its first k
\* pages, each page applied as applyTransactionUpdates applies a delta
RECURSIVE ProviderRows(_, _, _)
ProviderRows(log, k, uid) ==
    IF k = 0 THEN {}
    ELSE LET upserted == UpsertTransactions(ProviderRows(log, k - 1, uid),
                            TransactionUpserts(uid, log[k].added, log[k].modified))
         IN DeleteTransactions(upserted, AllRemovedIds(<< log[k] >>))

MostAdvanced(c, d) == IF Pos(c) >= Pos(d) THEN c ELSE d

\* C15: when two invocations on one item have both succeeded, whatever their
\* interleaving, the stored cursor they committed is the most advanced of
\* their two cursors, and the transactions table is the provider's state at
\* the stored cursor.
C15_ConcurrentConsistent ==
    \A p, q \in Procs :
       (p # q /\ Succeeded(p) /\ Succeeded(q) /\ arg[p] = arg[q]) =>
          \A c \in StoredCursors(items, arg[p]) \cap {cursor[p], cursor[q]} :
             /\ c = MostAdvanced(cursor[p], cursor[q])
             /\ transactions = ProviderRows(provider, Pos(c), "u1")

\* the transactions table after each page's delta is applied on its own, in
\* fetch order: the page's added and modified upserted, then its removed
\* deleted
RECURSIVE PageByPage(_, _, _)
PageByPage(table, pages, uid) ==
    IF pages = << >> THEN table
    ELSE LET pg == Head(pages)
             upserted == UpsertTransactions(table,
                            TransactionUpserts(uid, pg.added, pg.modified))
         IN PageByPage(DeleteTransactions(upserted, AllRemovedIds(<< pg >>)),
                       Tail(pages), uid)

\* C16: the merged delta applied in one batch (all added then modified
\* upserted, then all removed deleted) leaves the transactions table that
\* applying each page's delta in fetch order leaves, for every page sequence.
C16_BatchEqualsPageByPage ==
    \A p \in Procs :
       Succeeded(p) =>
          transactions = PageByPage(pre[p].transactions, fetched[p], userId[p])

\* the cursor the item's row held when the invocation read it: null when
\* there is no row or the row has no cursor yet
StoredCursor(p) == SelectCursor(loaded[p].rows, arg[p], TRUE)

ReadCursor(p) == IF loaded[p].ok THEN StoredCursor(p) ELSE NullCursor

C17_FromStoredCursor ==
    /\ pc["p1"] = "user"
    /\ loaded["p1"].ok
    /\ StoredCursor("p1") = Token(1)
    /\ Len(provider) = 2
    /\ fetched["p1"] = << provider[2] >>
    /\ provider[2] # provider[1]

\* C18: within one invocation no storage write happens before the page with
\* has_more = false has been received, and the writes come in the order
\* upsert, delete, cursor commit; so an invocation that is abandoned at any
\* point before its cursor commit has left the item's stored cursor as it
\* was.
C18_WritesAfterLastPageInOrder ==
    \A p \in Procs :
       /\ wrote[p] # {} =>
             /\ Len(fetched[p]) > 0
             /\ ~LastFetched(p).has_more
             /\ "upsert" \in wrote[p]
       /\ "cursor" \in wrote[p] =>
             (Len(removed[p]) > 0 => "delete" \in wrote[p])
       /\ pc[p] \in {"load", "fetch", "user", "upsert"} =>
             /\ wrote[p] = {}
             /\ transactions = pre[p].transactions
       /\ pc[p] = "delete" => wrote[p] = {"upsert"}
       /\ pc[p] = "commit" => "cursor" \notin wrote[p]
       /\ pc[p] \in {"load", "fetch", "user", "upsert", "delete", "commit"} =>
             items = pre[p].items

C18_Witness ==
    /\ pc["p1"] = "commit"
    /\ wrote["p1"] = {"upsert", "delete"}
    /\ Len(fetched["p1"]) = 2
    /\ transactions # pre["p1"].transactions
    /\ StoredCursors(items, "A") = {NullCursor}
    /\ cursor["p1"] = Token(2)

\* the rows of the transactions table with identifier t
RowsOf(table, t) == { r \in table : r.transaction_id = t }

\* the identifiers an invocation has accumulated
Accumulated(p) == IdsOf(added[p]) \cup IdsOf(modified[p]) \cup Range(removed[p])

\* C19: a syncTransactions invocation for one item leaves the stored cursor
\* of every other item unchanged, and every transaction row whose identifier
\* is in none of its accumulated added, modified and removed lists; and the
\* cursor of an item row changes in no step but the cursor commit of a sync
\* for that item: storePlaidItem, storePlaidAccounts, fetchAndStoreAccounts,
\* fetchAccounts and fetchTransactions change no item's cursor.
C19_Frame ==
    [][ /\ \A i \in ItemIds :
             ( /\ StoredCursors(items, i) # {}
               /\ StoredCursors(items', i) # StoredCursors(items, i) ) =>
                \E p \in Procs : /\ pc[p] = "commit"
                                 /\ pc'[p] = "done"
                                 /\ arg[p] = i
                                 /\ call' = call
        /\ \A t \in TxIds :
             RowsOf(transactions', t) # RowsOf(transactions, t) =>
                \E p \in Procs : /\ pc[p] \in {"upsert", "delete"}
                                 /\ t \in Accumulated(p)
                                 /\ call' = call
        /\ call' # call =>
             /\ transactions' = transactions
             /\ \A r \in items : r \in items'
             /\ \A r \in items' \ items : r.cursor = NullCursor ]_vars

\* a sync for item A has committed its cursor beside item B's row and beside
\* a transaction row it did not name
C19_Witness ==
    /\ pc["p1"] = "done"
    /\ arg["p1"] = "A"
    /\ outcome["p1"].status = "ok"
    /\ StoredCursors(items, "A") = {Token(1)}
    /\ StoredCursors(items, "B") = {NullCursor}
    /\ "t1" \in Accumulated("p1")
    /\ RowsOf(transactions, "t2") # {}

\* the invocation's read of the cursor reported an error or found no row
ReadGaveNothing(p) ==
    loaded[p].asked /\ (~loaded[p].ok \/ loaded[p].rows = {})

\* what a first sync accumulates: every page from the beginning of the log
FirstSyncDelta ==
    FetchAll(provider, NullCursor,
             [added |-> << >>, modified |-> << >>, removed |-> << >>],
             MaxPages + 1)

\* C20: when the initial read of the item's stored cursor fails or finds no
\* item row, syncTransactions does not fail on it: it goes on with a null
\* cursor and pages from the beginning of the provider's history as a first
\* sync does; and when no row matches the item identifier, the cursor commit
\* changes no row and the invocation still returns the success
\* acknowledgment.
C20_ReadFailureMeansFirstSync ==
    \A p \in Procs :
       ReadGaveNothing(p) =>
          /\ pc[p] # "load"
          /\ failedAt[p] # "load"
          /\ (pc[p] = "fetch" /\ Len(fetched[p]) = 0) =>
                /\ cursor[p] = NullCursor
                /\ outcome[p] = NoOutcome
          /\ Len(fetched[p]) > 0 =>
                fetched[p][1] = TransactionsSync(provider, NullCursor)
          /\ (ApplyCalled(p) /\ pc[p] # "idle") =>
                /\ added[p] = FirstSyncDelta.added
                /\ modified[p] = FirstSyncDelta.modified
                /\ removed[p] = FirstSyncDelta.removed
                /\ cursor[p] = FirstSyncDelta.cursor
          /\ (loaded[p].rows = {} /\ "cursor" \in wrote[p]) =>
                /\ items = pre[p].items
                /\ Succeeded(p)
                /\ outcome[p].message = SyncOkMessage

\* a sync of an item that has no row wrote transactions, committed its
\* cursor to no row and returned success
C20_Witness ==
    /\ Succeeded("p1")
    /\ loaded["p1"].asked
    /\ loaded["p1"].rows = {}
    /\ items = {}
    /\ "cursor" \in wrote["p1"]
    /\ transactions # {}
    /\ Len(fetched["p1"]) = 2

\* a sync whose read failed although the item has a stored cursor started
\* from the beginning again
C20_FailedRead ==
    /\ Succeeded("p1")
    /\ loaded["p1"].asked
    /\ ~loaded["p1"].ok
    /\ StoredCursors(loaded["p1"].rows, "A") = {Token(2)}
    /\ Len(fetched["p1"]) = 2

====
